---- MODULE Spec2Model ----
(***************************************************************************)
(* Model of the multi-tenant invoicing / inventory REST API                *)
(* (src/invoices): tenant membership, request business context, the stock  *)
(* ledger, invoices with their day-sequence numbers and line items.        *)
(*                                                                         *)
(* Every REST handler is one atomic action (one request at a time), except *)
(* in SpecConc, where Invoice.save is split at the point where the count   *)
(* query has returned and the INSERT has not yet been issued.              *)
(*                                                                         *)
(* Quantities and prices are DecimalField(10,2) values; they are modelled  *)
(* as integers (hundredths).  Strings that the code builds (the invoice    *)
(* number) are sequences of one-character strings.                         *)
(***************************************************************************)
EXTENDS Integers, Sequences, FiniteSets, TLC

VARIABLES
    users,        \* auth_user rows: id -> [is_staff, is_superuser]
    businesses,   \* Business rows (ids)
    memberships,  \* BusinessMembership rows [user, business, role]
    session,      \* per user: session['current_business_id'] or NoBusiness
    products,     \* Product rows [id, business, unit_price]
    movements,    \* StockMovement rows [id, business, product, movement_type, quantity,
                  \*                      movement_date, created_at]
    invoices,     \* Invoice rows [id, business, user, invoice_number, invoice_date,
                  \*               created_at, updated_at]
    items,        \* InvoiceItem rows [invoice, line, product, quantity, unit_price]
    nextId,       \* auto-increment primary keys [movement, invoice, product, user]
    today,        \* date.today() of the server
    procs,        \* in-flight Invoice.save calls (SpecConc): proc -> local state
    response      \* the last request answered: [op, status]

vars == <<users, businesses, memberships, session, products, movements,
          invoices, items, nextId, today, procs, response>>

tenancyVars == <<users, businesses, memberships, session>>
stockVars == <<products, movements, invoices, items, nextId>>

----------------------------------------------------------------------------
(* Bounds of the model *)

\* auto-increment ids handed out to stock movements
MaxMovements == 2
\* auto-increment ids handed out to invoices
MaxInvoices == 2
\* line items accepted in one invoice request
MaxItems == 1
\* last day of the month the clock may reach
MaxDay == 2
\* concurrent Invoice.save calls in flight
MaxProcs == 2
\* auto-increment ids handed out to products (ids 1 and 2 are in use at Init)
MaxProducts == 3
\* users that can exist over a run (three exist at the start)
MaxUsers == 4

UserIds == {1, 2, 3}
\* primary keys of auth_user rows, those of users created later included
AllUserIds == 1..MaxUsers
\* the password UserCreateSerializer.create and reset_password set
DefaultPassword == "Welcome@123"
\* raw passwords tried by requests: the default, a valid one, a short one
Passwords == {DefaultPassword, "secret12", "short"}
BusinessIds == {1, 2}
ProductIds == {1, 2}
\* request.business = None / no current_business_id in the session
NoBusiness == 0

Roles == {"admin", "member"}
\* request.data['role'] values tried by update_role / add_member ("owner" is not a role)
RoleInputs == {"admin", "member", "owner"}
MovementTypes == {"IN", "OUT"}
\* how the request is authenticated: a JWT bearer token, or the session cookie
AuthModes == {"jwt", "session"}
Quantities == {1, 2}
Prices == {0, 3}
\* invoice_number = '' (blank=True): not yet numbered
Blank == <<>>
Dates == {[year |-> 2024, month |-> 1, day |-> d] : d \in 1..MaxDay}
ProcIds == 1..MaxProcs

\* the answer to a request: the handler that produced it and its HTTP status
Response(op, status) == [op |-> op, status |-> status]

----------------------------------------------------------------------------
(* Strings *)

DigitChar == <<"0", "1", "2", "3", "4", "5", "6", "7", "8", "9">>

RECURSIVE Digits(_)
\* decimal digits of n >= 0, most significant first ("0" for 0)
Digits(n) == IF n < 10 THEN <<DigitChar[n + 1]>>
             ELSE Digits(n \div 10) \o <<DigitChar[(n % 10) + 1]>>

RECURSIVE ZeroPad(_, _)
\* format(n, '0<w>d'): zero-padded on the left to at least w characters
ZeroPad(s, w) == IF Len(s) >= w THEN s ELSE ZeroPad(<<"0">> \o s, w)

\* date.strftime('%Y%m%d')
strftime_Ymd(d) == ZeroPad(Digits(d.year), 4) \o ZeroPad(Digits(d.month), 2)
                       \o ZeroPad(Digits(d.day), 2)

\* str.startswith, as used by the invoice_number__startswith lookup
StartsWith(s, prefix) == /\ Len(s) >= Len(prefix)
                         /\ SubSeq(s, 1, Len(prefix)) = prefix

\* f'INV-{date_str}'
InvPrefix(date_str) == <<"I", "N", "V", "-">> \o date_str

\* f'INV-{date_str}-{n:04d}'
FormatInvoiceNumber(date_str, n) ==
    InvPrefix(date_str) \o <<"-">> \o ZeroPad(Digits(n), 4)

----------------------------------------------------------------------------
(* Aggregates *)

RECURSIVE SumQuantity(_)
\* Sum('quantity') over a set of rows
SumQuantity(rows) ==
    IF rows = {} THEN 0
    ELSE LET r == CHOOSE x \in rows : TRUE
         IN r.quantity + SumQuantity(rows \ {r})

\* QuerySet.aggregate(total=Sum('quantity'))['total'] or Decimal('0'):
\* the aggregate of no rows is None, which `or` turns into 0
AggregateOrZero(rows) == IF rows = {} THEN 0 ELSE SumQuantity(rows)

----------------------------------------------------------------------------
(* Tenancy: memberships, request business context, permissions *)

IsMember(u, b) == \E m \in memberships : m.user = u /\ m.business = b
IsAdmin(u, b) == \E m \in memberships :
                    m.user = u /\ m.business = b /\ m.role = "admin"
AdminCount(b) == Cardinality({m \in memberships :
                                 m.business = b /\ m.role = "admin"})

\* BusinessContextMiddleware.__call__ acts only when Django's own session
\* authentication knows the user; it drops a selection the user lost access to
MiddlewareSession(u, mode) ==
    IF mode = "session" /\ session[u] # NoBusiness
          /\ ~(session[u] \in businesses /\ IsMember(u, session[u]))
    THEN NoBusiness
    ELSE session[u]

\* authenticate trusting the session: the membership test left out
AuthenticateBusiness_unverified(u, mode) ==
    LET business_id == MiddlewareSession(u, mode)
    IN IF business_id = NoBusiness THEN NoBusiness
       ELSE IF business_id \notin businesses THEN NoBusiness
       ELSE business_id

\* request.business as set by *AuthenticationWithBusinessContext.authenticate
AuthenticateBusiness(u, mode) ==
    LET business_id == MiddlewareSession(u, mode)
    IN IF business_id = NoBusiness THEN NoBusiness
       ELSE IF business_id \notin businesses THEN NoBusiness
       ELSE IF IsMember(u, business_id) \/ users[u].is_superuser
            THEN business_id
            ELSE NoBusiness

\* the session row after the request went through the middleware
SessionAfter(u, mode) == [session EXCEPT ![u] = MiddlewareSession(u, mode)]

\* HasBusinessAccess.has_permission
HasBusinessAccess(u, mode) ==
    IF users[u].is_superuser THEN TRUE
    ELSE LET b == AuthenticateBusiness(u, mode)
         IN IF b = NoBusiness THEN FALSE ELSE IsMember(u, b)

\* IsStaffUser.has_permission
IsStaffUser(u) == users[u].is_staff

\* BusinessViewSet.get_queryset
BusinessQueryset(u) ==
    IF users[u].is_superuser THEN businesses
    ELSE {b \in businesses : IsMember(u, b)}

----------------------------------------------------------------------------
(* BusinessViewSet *)

\* POST /api/businesses/{b}/select/
select(u, mode, b) ==
    /\ IF b \notin BusinessQueryset(u)
       THEN /\ response' = Response("select", 404)
            /\ session' = SessionAfter(u, mode)
       ELSE IF ~IsMember(u, b)
       THEN /\ response' = Response("select", 403)
            /\ session' = SessionAfter(u, mode)
       ELSE /\ response' = Response("select", 200)
            /\ session' = [session EXCEPT ![u] = b]
    /\ UNCHANGED <<users, businesses, memberships, stockVars, today, procs>>

\* the sender's check of add_member passing every member of the business
\* (the role='admin' filter left out)
add_member_status_anymember(u, b, target, role) ==
    IF b \notin BusinessQueryset(u) THEN 404
    ELSE IF ~users[u].is_superuser /\ ~IsMember(u, b) THEN 403
    ELSE IF target \notin DOMAIN users \/ role \notin Roles THEN 400
    ELSE IF IsMember(target, b) THEN 400
    ELSE 201

\* status add_member answers with; 201 is the only one that stores a row
add_member_status(u, b, target, role) ==
    IF b \notin BusinessQueryset(u) THEN 404
    ELSE IF ~users[u].is_superuser /\ ~IsAdmin(u, b) THEN 403
    ELSE IF target \notin DOMAIN users \/ role \notin Roles THEN 400
    ELSE IF IsMember(target, b) THEN 400
    ELSE 201

\* POST /api/businesses/{b}/add_member/
add_member(u, mode, b, target, role) ==
    LET st == add_member_status(u, b, target, role)
    IN /\ response' = Response("add_member", st)
       /\ memberships' =
            IF st = 201
            THEN memberships \cup
                    {[user |-> target, business |-> b, role |-> role]}
            ELSE memberships
       /\ session' = SessionAfter(u, mode)
       /\ UNCHANGED <<users, businesses, stockVars, today, procs>>

\* the "last admin" guard of remove_member dropped
remove_member_status_noguard(u, b, target) ==
    IF b \notin BusinessQueryset(u) THEN 404
    ELSE IF ~users[u].is_superuser /\ ~IsAdmin(u, b) THEN 403
    ELSE IF ~IsMember(target, b) THEN 404
    ELSE 204

remove_member_status(u, b, target) ==
    IF b \notin BusinessQueryset(u) THEN 404
    ELSE IF ~users[u].is_superuser /\ ~IsAdmin(u, b) THEN 403
    ELSE IF ~IsMember(target, b) THEN 404
    ELSE IF IsAdmin(target, b) /\ AdminCount(b) <= 1 THEN 400
    ELSE 204

\* DELETE /api/businesses/{b}/remove_member/{target}/
remove_member(u, mode, b, target) ==
    LET st == remove_member_status(u, b, target)
    IN /\ response' = Response("remove_member", st)
       /\ memberships' =
            IF st = 204
            THEN {m \in memberships :
                     ~(m.user = target /\ m.business = b)}
            ELSE memberships
       /\ session' = SessionAfter(u, mode)
       /\ UNCHANGED <<users, businesses, stockVars, today, procs>>

\* the guard compares with < instead of <=
update_role_status_offbyone(u, b, target, new_role) ==
    IF b \notin BusinessQueryset(u) THEN 404
    ELSE IF ~users[u].is_superuser /\ ~IsAdmin(u, b) THEN 403
    ELSE IF ~IsMember(target, b) THEN 404
    ELSE IF new_role \notin Roles THEN 400
    ELSE IF IsAdmin(target, b) /\ new_role = "member" /\ AdminCount(b) < 1
         THEN 400
    ELSE 200

update_role_status(u, b, target, new_role) ==
    IF b \notin BusinessQueryset(u) THEN 404
    ELSE IF ~users[u].is_superuser /\ ~IsAdmin(u, b) THEN 403
    ELSE IF ~IsMember(target, b) THEN 404
    ELSE IF new_role \notin Roles THEN 400
    ELSE IF IsAdmin(target, b) /\ new_role = "member" /\ AdminCount(b) <= 1
         THEN 400
    ELSE 200

\* PATCH /api/businesses/{b}/update_role/{target}/
update_role(u, mode, b, target, new_role) ==
    LET st == update_role_status(u, b, target, new_role)
    IN /\ response' = Response("update_role", st)
       /\ memberships' =
            IF st = 200
            THEN {IF m.user = target /\ m.business = b
                  THEN [m EXCEPT !.role = new_role] ELSE m : m \in memberships}
            ELSE memberships
       /\ session' = SessionAfter(u, mode)
       /\ UNCHANGED <<users, businesses, stockVars, today, procs>>

\* DELETE /api/businesses/{b}/ : perform_destroy lets only superusers delete.
\* instance.delete() removes, by on_delete=CASCADE, the memberships, products,
\* stock movements and invoices of the business, the items of those invoices
\* and the stock movements of those products; an item of another business's
\* invoice on one of the products (InvoiceItem.product, on_delete=PROTECT)
\* makes the delete fail with ProtectedError and nothing is removed
destroy_business(u, mode, b) ==
    LET gone_products == {p.id : p \in {q \in products : q.business = b}}
        gone_invoices == {i.id : i \in {j \in invoices : j.business = b}}
        protected == \E it \in items : /\ it.product \in gone_products
                                        /\ it.invoice \notin gone_invoices
        st == IF b \notin BusinessQueryset(u) THEN 404
              ELSE IF ~users[u].is_superuser THEN 403
              ELSE IF protected THEN 500
              ELSE 204
    IN /\ response' = Response("destroy_business", st)
       /\ IF st = 204
          THEN /\ businesses' = businesses \ {b}
               /\ memberships' = {m \in memberships : m.business # b}
               /\ products' = {p \in products : p.business # b}
               /\ movements' = {m \in movements :
                                  /\ m.business # b
                                  /\ m.product \notin gone_products}
               /\ invoices' = {i \in invoices : i.business # b}
               /\ items' = {it \in items : it.invoice \notin gone_invoices}
          ELSE UNCHANGED <<businesses, memberships, products, movements,
                           invoices, items>>
       /\ session' = SessionAfter(u, mode)
       /\ UNCHANGED <<users, nextId, today, procs>>

----------------------------------------------------------------------------
(* UserViewSet *)

\* UserViewSet.get_queryset: staff who are not superusers do not see superusers
UserQueryset(u) ==
    IF users[u].is_superuser THEN DOMAIN users
    ELSE {t \in DOMAIN users : ~users[t].is_superuser}

\* PUT/PATCH /api/users/{target}/ with UserSerializer (is_staff and
\* is_superuser are writable fields)
update_user(u, mode, target, is_staff, is_superuser) ==
    /\ IF ~IsStaffUser(u)
       THEN response' = Response("update_user", 403) /\ users' = users
       ELSE IF target \notin UserQueryset(u)
       THEN response' = Response("update_user", 404) /\ users' = users
       ELSE /\ response' = Response("update_user", 200)
            /\ users' = [users EXCEPT ![target].is_staff = is_staff,
                                      ![target].is_superuser = is_superuser]
    /\ session' = SessionAfter(u, mode)
    /\ UNCHANGED <<businesses, memberships, stockVars, today, procs>>

\* the users whose requests are authenticated: the account exists and is
\* active (an inactive or deleted user's token or session is refused)
ActiveUsers == {u \in DOMAIN users : users[u].is_active}

\* a request of a deleted or disabled user: answered 401 before any view runs
unauthenticated_request(u) ==
    /\ u \notin ActiveUsers
    /\ response' = Response("unauthenticated", 401)
    /\ UNCHANGED <<tenancyVars, stockVars, today, procs>>

\* CannotModifySelf.has_object_permission
CannotModifySelf(u, action, obj) ==
    ~(action \in {"destroy", "toggle_status"} /\ u = obj)

\* a detail route of UserViewSet: IsStaffUser, then get_object on
\* get_queryset (404), then the object permission CannotModifySelf (403)
User_object_status(u, action, target) ==
    IF ~IsStaffUser(u) THEN 403
    ELSE IF target \notin UserQueryset(u) THEN 404
    ELSE IF ~CannotModifySelf(u, action, target) THEN 403
    ELSE 200

\* GET /api/users/{target}/
retrieve_user(u, mode, target) ==
    /\ response' = Response("retrieve_user",
                            User_object_status(u, "retrieve", target))
    /\ session' = SessionAfter(u, mode)
    /\ UNCHANGED <<users, businesses, memberships, stockVars, today, procs>>

\* PATCH /api/users/{target}/ {is_active: ...} with UserSerializer (is_active
\* is a writable field)
partial_update_user(u, mode, target, is_active) ==
    LET st == User_object_status(u, "partial_update", target)
    IN /\ response' = Response("update_user", st)
       /\ users' = IF st = 200
                   THEN [users EXCEPT ![target].is_active = is_active]
                   ELSE users
       /\ session' = SessionAfter(u, mode)
       /\ UNCHANGED <<businesses, memberships, stockVars, today, procs>>

\* POST /api/users/ with UserCreateSerializer: is_staff is a field of it,
\* is_superuser is not; password is optional (given = FALSE: not sent)
create_user(u, mode, is_staff, password) ==
    /\ nextId.user <= MaxUsers
    /\ IF ~IsStaffUser(u)
       THEN /\ response' = Response("create_user", 403)
            /\ UNCHANGED <<users, nextId>>
       ELSE /\ response' = Response("create_user", 201)
            /\ users' = users @@
                  (nextId.user :>
                     [is_staff |-> is_staff, is_superuser |-> FALSE,
                      is_active |-> TRUE, must_change_password |-> TRUE,
                      password |-> IF password.given THEN password.value
                                   ELSE DefaultPassword])
            /\ nextId' = [nextId EXCEPT !.user = @ + 1]
    /\ session' = SessionAfter(u, mode)
    /\ UNCHANGED <<businesses, memberships, products, movements, invoices,
                   items, today, procs>>

\* POST /api/users/{target}/reset_password/
reset_password(u, mode, target) ==
    LET st == User_object_status(u, "reset_password", target)
    IN /\ response' = Response("reset_password", st)
       /\ users' = IF st = 200
                   THEN [users EXCEPT
                            ![target].password = DefaultPassword,
                            ![target].must_change_password = TRUE]
                   ELSE users
       /\ session' = SessionAfter(u, mode)
       /\ UNCHANGED <<businesses, memberships, stockVars, today, procs>>

\* POST /api/users/{target}/toggle_status/
toggle_status(u, mode, target) ==
    LET st == User_object_status(u, "toggle_status", target)
    IN /\ response' = Response("toggle_status", st)
       /\ users' = IF st = 200
                   THEN [users EXCEPT ![target].is_active = ~@]
                   ELSE users
       /\ session' = SessionAfter(u, mode)
       /\ UNCHANGED <<businesses, memberships, stockVars, today, procs>>

\* DELETE /api/users/{target}/ : the row goes, and by on_delete=CASCADE the
\* user's profile, memberships and invoices (with their items);
\* StockMovement.created_by is SET_NULL
destroy_user(u, mode, target) ==
    LET st == User_object_status(u, "destroy", target)
    IN /\ IF st # 200
          THEN /\ response' = Response("destroy_user", st)
               /\ UNCHANGED <<users, memberships, invoices, items>>
          ELSE /\ response' = Response("destroy_user", 204)
               /\ users' = [t \in DOMAIN users \ {target} |-> users[t]]
               /\ memberships' = {m \in memberships : m.user # target}
               /\ invoices' = {i \in invoices : i.user # target}
               /\ items' = {it \in items :
                              \E i \in invoices :
                                  i.id = it.invoice /\ i.user # target}
       /\ session' = SessionAfter(u, mode)
       /\ UNCHANGED <<businesses, products, movements, nextId, today, procs>>

----------------------------------------------------------------------------
(* AuthViewSet *)

\* validation that checks the old password only
PasswordChange_is_valid_anylength(u, old_password, new_password) ==
    users[u].password = old_password

\* PasswordChangeSerializer.validate_old_password (check_password) and
\* validate_new_password (at least 8 characters)
PasswordChange_is_valid(u, old_password, new_password) ==
    /\ users[u].password = old_password
    /\ Len(new_password) >= 8

\* POST /api/auth/change_password/ : permissions [IsAuthenticated]
change_password(u, mode, old_password, new_password) ==
    /\ IF PasswordChange_is_valid(u, old_password, new_password)
       THEN /\ response' = Response("change_password", 200)
            /\ users' = [users EXCEPT
                            ![u].password = new_password,
                            ![u].must_change_password = FALSE]
       ELSE /\ response' = Response("change_password", 400)
            /\ users' = users
    /\ session' = SessionAfter(u, mode)
    /\ UNCHANGED <<businesses, memberships, stockVars, today, procs>>

----------------------------------------------------------------------------
(* ProductViewSet *)

Product(pid) == CHOOSE p \in products : p.id = pid

\* ProductViewSet.get_queryset
ProductQueryset(u, mode) ==
    LET b == AuthenticateBusiness(u, mode)
    IN IF b # NoBusiness THEN {p \in products : p.business = b} ELSE {}

\* GET /api/products/ : the status, and the rows of a 200 answer
list_products_status(u, mode) ==
    IF HasBusinessAccess(u, mode) THEN 200 ELSE 403

list_products_result(u, mode) ==
    IF list_products_status(u, mode) = 200
    THEN ProductQueryset(u, mode) ELSE {}

list_products(u, mode) ==
    /\ response' = Response("list_products", list_products_status(u, mode))
    /\ session' = SessionAfter(u, mode)
    /\ UNCHANGED <<users, businesses, memberships, stockVars, today, procs>>

\* get_permissions without IsStaffUser
Product_write_permission_nostaff(u, mode) == HasBusinessAccess(u, mode)

\* permissions [IsAuthenticated, IsStaffUser, HasBusinessAccess] of create,
\* update, partial_update and destroy
Product_write_permission(u, mode) ==
    IsStaffUser(u) /\ HasBusinessAccess(u, mode)

\* POST /api/products/ : ProductSerializer.create sets the business of the
\* request; without one the INSERT fails (business is NOT NULL)
create_product(u, mode, unit_price) ==
    LET st == IF ~Product_write_permission(u, mode) THEN 403
              ELSE IF AuthenticateBusiness(u, mode) = NoBusiness THEN 500
              ELSE 201
    IN /\ nextId.product <= MaxProducts
       /\ response' = Response("create_product", st)
       /\ IF st = 201
          THEN /\ products' = products \cup
                      {[id |-> nextId.product,
                        business |-> AuthenticateBusiness(u, mode),
                        unit_price |-> unit_price]}
               /\ nextId' = [nextId EXCEPT !.product = @ + 1]
          ELSE UNCHANGED <<products, nextId>>
       /\ session' = SessionAfter(u, mode)
       /\ UNCHANGED <<users, businesses, memberships, movements, invoices,
                      items, today, procs>>

\* get_object of a product: the row pk of get_queryset (the products of the
\* request's business); HasBusinessAccess.has_object_permission then passes
Product_object_status(u, mode, pk) ==
    IF ~Product_write_permission(u, mode) THEN 403
    ELSE IF pk \notin {p.id : p \in ProductQueryset(u, mode)} THEN 404
    ELSE 200

\* PUT/PATCH /api/products/{pk}/ with a new unit_price
update_product(u, mode, pk, unit_price) ==
    LET st == Product_object_status(u, mode, pk)
    IN /\ response' = Response("update_product", st)
       /\ products' =
            IF st = 200
            THEN {IF p.id = pk THEN [p EXCEPT !.unit_price = unit_price]
                  ELSE p : p \in products}
            ELSE products
       /\ session' = SessionAfter(u, mode)
       /\ UNCHANGED <<users, businesses, memberships, movements, invoices,
                      items, nextId, today, procs>>

\* DELETE /api/products/{pk}/ : an invoice item on the product
\* (on_delete=PROTECT) makes the delete fail with ProtectedError; otherwise the
\* product goes, and its stock movements with it (on_delete=CASCADE)
destroy_product(u, mode, pk) ==
    LET st0 == Product_object_status(u, mode, pk)
        st == IF st0 # 200 THEN st0
              ELSE IF \E it \in items : it.product = pk THEN 500
              ELSE 204
    IN /\ response' = Response("destroy_product", st)
       /\ IF st = 204
          THEN /\ products' = {p \in products : p.id # pk}
               /\ movements' = {m \in movements : m.product # pk}
          ELSE UNCHANGED <<products, movements>>
       /\ session' = SessionAfter(u, mode)
       /\ UNCHANGED <<users, businesses, memberships, invoices, items,
                      nextId, today, procs>>

\* Product.quantity_in_stock with the invoice__business filter left out
quantity_in_stock_unscoped(p) ==
    LET incoming == AggregateOrZero({m \in movements :
                        m.product = p.id /\ m.movement_type = "IN"})
        outgoing == AggregateOrZero({m \in movements :
                        m.product = p.id /\ m.movement_type = "OUT"})
        invoiced == AggregateOrZero({it \in items : it.product = p.id})
    IN incoming - outgoing - invoiced

\* Product.quantity_in_stock
quantity_in_stock(p) ==
    LET incoming == AggregateOrZero({m \in movements :
                        m.product = p.id /\ m.movement_type = "IN"})
        outgoing == AggregateOrZero({m \in movements :
                        m.product = p.id /\ m.movement_type = "OUT"})
        invoiced == AggregateOrZero({it \in items :
                        /\ it.product = p.id
                        /\ \E i \in invoices : /\ i.id = it.invoice
                                               /\ i.business = p.business})
    IN incoming - outgoing - invoiced

----------------------------------------------------------------------------
(* ProductViewSet.stock_history *)

\* a date as a number that orders like the date
DateNum(d) == (d.year * 100 + d.month) * 100 + d.day

\* comparison of sort keys <<date, created_at, rank>>
KeyLeq(a, b) ==
    \/ a[1] < b[1]
    \/ a[1] = b[1] /\ a[2] < b[2]
    \/ a[1] = b[1] /\ a[2] = b[2] /\ a[3] <= b[3]

RECURSIVE SortedByKey(_)
\* the rows in ascending order of their key
SortedByKey(rows) ==
    IF rows = {} THEN <<>>
    ELSE LET r == CHOOSE x \in rows : \A y \in rows : KeyLeq(x.key, y.key)
         IN <<r>> \o SortedByKey(rows \ {r})

\* StockMovement.objects.filter(product=product, business=request.business)
\* .order_by('movement_date', 'created_at'): created_at grows with the id
MovementsOfHistory(p, b) ==
    SortedByKey({[key |-> <<DateNum(m.movement_date), DateNum(m.created_at),
                           m.id>>,
                  movement_type |-> m.movement_type,
                  quantity |-> m.quantity,
                  movement_date |-> m.movement_date,
                  created_at |-> m.created_at]
                    : m \in {x \in movements :
                                x.product = p.id /\ x.business = b}})

\* InvoiceItem.objects.filter(product=product, invoice__business=
\* request.business).order_by('invoice__invoice_date', 'invoice__created_at')
SalesOfHistory(p, b) ==
    LET inv(it) == CHOOSE i \in invoices : i.id = it.invoice
    IN SortedByKey({[key |-> <<DateNum(inv(it).invoice_date),
                              DateNum(inv(it).created_at),
                              it.invoice * (MaxItems + 2) + it.line>>,
                     movement_type |-> "SALE",
                     quantity |-> it.quantity,
                     movement_date |-> inv(it).invoice_date,
                     created_at |-> inv(it).created_at]
                       : it \in {x \in items :
                                   /\ x.product = p.id
                                   /\ \E i \in invoices :
                                         i.id = x.invoice /\ i.business = b}})

RECURSIVE RunningTotals(_, _)
\* the loop bodies of stock_history: running_total goes up by an IN quantity
\* and down by any other; each entry records the total reached
RunningTotals(rows, running_total) ==
    IF rows = <<>> THEN <<>>
    ELSE LET r == Head(rows)
             t == IF r.movement_type = "IN"
                  THEN running_total + r.quantity
                  ELSE running_total - r.quantity
         IN <<[movement_type |-> r.movement_type,
               quantity |-> r.quantity,
               movement_date |-> r.movement_date,
               created_at |-> r.created_at,
               running_total |-> t]>> \o RunningTotals(Tail(rows), t)

\* the signed sum of the quantities of rows (IN adds, OUT and SALE subtract)
RECURSIVE SignedSum(_)
SignedSum(rows) ==
    IF rows = <<>> THEN 0
    ELSE (IF Head(rows).movement_type = "IN"
          THEN Head(rows).quantity ELSE 0 - Head(rows).quantity)
            + SignedSum(Tail(rows))

\* history_data.sort(key=lambda x: (x['movement_date'], x['created_at'])):
\* list.sort is stable, entries with equal keys keep their place
sort_by_date(history_data) ==
    LET keyed == {[key |-> <<DateNum(history_data[k].movement_date),
                            DateNum(history_data[k].created_at), k>>,
                   entry |-> history_data[k]] : k \in DOMAIN history_data}
        sorted == SortedByKey(keyed)
    IN [k \in DOMAIN sorted |-> sorted[k].entry]

\* the list stock_history answers with for product p in business b: the
\* movements with their running totals, then the sales continuing the total,
\* then the whole list sorted by date
stock_history_data(p, b) ==
    LET moves == RunningTotals(MovementsOfHistory(p, b), 0)
        last == IF moves = <<>> THEN 0 ELSE moves[Len(moves)].running_total
        sales == RunningTotals(SalesOfHistory(p, b), last)
    IN sort_by_date(moves \o sales)

\* GET /api/products/{pk}/stock_history/ : permissions [IsAuthenticated,
\* HasBusinessAccess], get_object on the products of the request's business
stock_history_status(u, mode, pk) ==
    IF ~HasBusinessAccess(u, mode) THEN 403
    ELSE IF pk \notin {p.id : p \in ProductQueryset(u, mode)} THEN 404
    ELSE 200

stock_history(u, mode, pk) ==
    /\ response' = Response("stock_history", stock_history_status(u, mode, pk))
    /\ session' = SessionAfter(u, mode)
    /\ UNCHANGED <<users, businesses, memberships, stockVars, today, procs>>

----------------------------------------------------------------------------
(* StockMovementViewSet *)

\* permissions [IsAuthenticated, IsStaffUser, HasBusinessAccess], then the
\* serializer's validation, then the INSERT (business is NOT NULL)
create_stock_movement_status(u, mode, pid, mtype, qty) ==
    IF ~IsStaffUser(u) THEN 403
    ELSE IF ~HasBusinessAccess(u, mode) THEN 403
    ELSE IF pid \notin {p.id : p \in products} THEN 400
    ELSE IF mtype \notin MovementTypes THEN 400
    ELSE IF AuthenticateBusiness(u, mode) = NoBusiness THEN 500
    ELSE 201

\* POST /api/stock-movements/
create_stock_movement(u, mode, pid, mtype, qty) ==
    LET st == create_stock_movement_status(u, mode, pid, mtype, qty)
    IN /\ nextId.movement <= MaxMovements
       /\ response' = Response("create_stock_movement", st)
       /\ IF st = 201
          THEN /\ movements' = movements \cup
                   {[id |-> nextId.movement,
                     business |-> AuthenticateBusiness(u, mode),
                     product |-> pid,
                     movement_type |-> mtype,
                     quantity |-> qty,
                     movement_date |-> today,
                     created_at |-> today]}
               /\ nextId' = [nextId EXCEPT !.movement = @ + 1]
          ELSE UNCHANGED <<movements, nextId>>
       /\ session' = SessionAfter(u, mode)
       /\ UNCHANGED <<users, businesses, memberships, products, invoices,
                      items, today, procs>>

\* StockMovementViewSet.update / destroy: the permission check of
\* APIView.initial comes first, then the handler answers 405
StockMovement_readonly_status(u, mode) ==
    IF HasBusinessAccess(u, mode) THEN 405 ELSE 403

\* PUT /api/stock-movements/{pk}/
StockMovement_update(u, mode, pk) ==
    /\ response' = Response("StockMovement_update", StockMovement_readonly_status(u, mode))
    /\ session' = SessionAfter(u, mode)
    /\ UNCHANGED <<users, businesses, memberships, stockVars, today, procs>>

\* PATCH /api/stock-movements/{pk}/ (UpdateModelMixin.partial_update calls
\* self.update)
StockMovement_partial_update(u, mode, pk) ==
    /\ response' = Response("StockMovement_partial_update", StockMovement_readonly_status(u, mode))
    /\ session' = SessionAfter(u, mode)
    /\ UNCHANGED <<users, businesses, memberships, stockVars, today, procs>>

\* destroy not overridden: DestroyModelMixin.destroy deletes the row pk of
\* get_queryset
StockMovement_destroy_inherited(u, mode, pk) ==
    LET queryset == {m \in movements :
                        m.business = AuthenticateBusiness(u, mode)}
        st == IF ~HasBusinessAccess(u, mode) THEN 403
              ELSE IF pk \notin {m.id : m \in queryset} THEN 404
              ELSE 204
    IN /\ response' = Response("StockMovement_destroy", st)
       /\ movements' = IF st = 204 THEN {m \in movements : m.id # pk}
                       ELSE movements
       /\ session' = SessionAfter(u, mode)
       /\ UNCHANGED <<users, businesses, memberships, products, invoices,
                      items, nextId, today, procs>>

\* DELETE /api/stock-movements/{pk}/
StockMovement_destroy(u, mode, pk) ==
    /\ response' = Response("StockMovement_destroy", StockMovement_readonly_status(u, mode))
    /\ session' = SessionAfter(u, mode)
    /\ UNCHANGED <<users, businesses, memberships, stockVars, today, procs>>

----------------------------------------------------------------------------
(* Invoice and InvoiceItem models *)

\* Invoice.Meta.unique_together = [['business', 'invoice_number']] not enforced
UniqueTogetherOff(row) == TRUE

\* Invoice.Meta.unique_together: the INSERT goes through only if no stored row
\* has the same (business, invoice_number)
UniqueTogether(row) ==
    ~\E i \in invoices : /\ i.business = row.business
                         /\ i.invoice_number = row.invoice_number

\* Invoice.save, the body of `with transaction.atomic()` for date.today() = day:
\* the count of the business's invoices whose number starts with the day's
\* prefix, plus one (select_for_update locks only rows the query returns)
InvoiceNumberOn(b, day) ==
    LET date_str == strftime_Ymd(day)
        today_count == Cardinality({i \in invoices :
                          /\ i.business = b
                          /\ StartsWith(i.invoice_number, InvPrefix(date_str))})
    IN FormatInvoiceNumber(date_str, today_count + 1)

\* Invoice.save numbering on every save, not only on the first
Invoice_save_always(row) ==
    [row EXCEPT !.invoice_number = InvoiceNumberOn(row.business, today)]

\* Invoice.save taking the day from the invoice_date field
Invoice_save_by_invoice_date(row) ==
    IF row.invoice_number = Blank
    THEN [row EXCEPT !.invoice_number =
                        InvoiceNumberOn(row.business, row.invoice_date)]
    ELSE row

\* Invoice.save: the row as it is handed to super().save()
Invoice_save(row) ==
    IF row.invoice_number = Blank
    THEN [row EXCEPT !.invoice_number = InvoiceNumberOn(row.business, today)]
    ELSE row

\* InvoiceItem.save storing the row as it was given
InvoiceItem_save_asgiven(row) == row

\* InvoiceItem.save: a falsy unit_price is replaced by the product's price
InvoiceItem_save(row) ==
    IF row.unit_price = 0
    THEN [row EXCEPT !.unit_price = Product(row.product).unit_price]
    ELSE row

\* InvoiceItem.line_total
line_total(it) == it.quantity * it.unit_price

\* the rows InvoiceItem.objects.create stores for items_data, in order; a row
\* is identified by its invoice and its place among the invoice's rows (the
\* order of the ids, Meta.ordering = ['id'])
NewItems(invoice_id, items_data) ==
    {InvoiceItem_save([invoice |-> invoice_id,
                       line |-> k,
                       product |-> items_data[k].product,
                       quantity |-> items_data[k].quantity,
                       unit_price |-> items_data[k].unit_price])
        : k \in 1..Len(items_data)}

\* InvoiceItemSerializer(many=True) validation: every product pk must exist
ItemsValid(items_data) ==
    \A k \in 1..Len(items_data) :
        items_data[k].product \in {p.id : p \in products}

RECURSIVE SumLineTotals(_)
\* sum(item.line_total for item in ...)
SumLineTotals(rows) ==
    IF rows = {} THEN 0
    ELSE LET r == CHOOSE x \in rows : TRUE
         IN line_total(r) + SumLineTotals(rows \ {r})

RECURSIVE SumAtProductPrice(_)
\* the lines priced with the unit price the product has now
SumAtProductPrice(rows) ==
    IF rows = {} THEN 0
    ELSE LET r == CHOOSE x \in rows : TRUE
         IN r.quantity * Product(r.product).unit_price
               + SumAtProductPrice(rows \ {r})

\* a subtotal computed from the products' current prices
subtotal_at_product_price(i) ==
    SumAtProductPrice({it \in items : it.invoice = i.id})

\* Invoice.subtotal: over self.items.all()
subtotal(i) == SumLineTotals({it \in items : it.invoice = i.id})

\* Invoice.tax_amount: subtotal * Decimal('0.0')
tax_amount(i) == subtotal(i) * 0

\* Invoice.total
total(i) == subtotal(i) + tax_amount(i)

----------------------------------------------------------------------------
(* InvoiceViewSet *)

\* get_queryset without the `if not user.is_staff` branch
InvoiceQueryset_nofilter(u, mode) ==
    LET b == AuthenticateBusiness(u, mode)
    IN IF b # NoBusiness THEN {i \in invoices : i.business = b} ELSE {}

\* InvoiceViewSet.get_queryset (no filter parameters in the query string)
InvoiceQueryset(u, mode) ==
    LET b == AuthenticateBusiness(u, mode)
        queryset == IF b # NoBusiness
                    THEN {i \in invoices : i.business = b} ELSE {}
    IN IF ~users[u].is_staff
       THEN {i \in queryset : i.user = u}
       ELSE queryset

\* GET /api/invoices/ : permissions [IsAuthenticated]
list_invoices_result(u, mode) == InvoiceQueryset(u, mode)

list_invoices(u, mode) ==
    /\ response' = Response("list_invoices", 200)
    /\ session' = SessionAfter(u, mode)
    /\ UNCHANGED <<users, businesses, memberships, stockVars, today, procs>>

\* the row InvoiceSerializer.create hands to Invoice.objects.create
NewInvoice(u, mode, invoice_date) ==
    [id |-> nextId.invoice,
     business |-> AuthenticateBusiness(u, mode),
     user |-> u,
     invoice_number |-> Blank,
     invoice_date |-> invoice_date,
     created_at |-> today,
     updated_at |-> today]

\* stock counted after the items of the request are taken out
StockSuffices(items_data) ==
    \A k \in 1..Len(items_data) :
        quantity_in_stock(Product(items_data[k].product))
            >= items_data[k].quantity

\* a create that refuses to sell more than is in stock
create_invoice_status_guarded(u, mode, invoice_date, items_data) ==
    IF ~ItemsValid(items_data) THEN 400
    ELSE IF ~StockSuffices(items_data) THEN 400
    ELSE IF AuthenticateBusiness(u, mode) = NoBusiness THEN 500
    ELSE IF ~UniqueTogether(Invoice_save(NewInvoice(u, mode, invoice_date)))
         THEN 500
    ELSE 201

\* POST /api/invoices/ : permissions [IsAuthenticated]; validation; the INSERT
\* fails on business NOT NULL or on unique_together (IntegrityError, 500)
create_invoice_status(u, mode, invoice_date, items_data) ==
    IF ~ItemsValid(items_data) THEN 400
    ELSE IF AuthenticateBusiness(u, mode) = NoBusiness THEN 500
    ELSE IF ~UniqueTogether(Invoice_save(NewInvoice(u, mode, invoice_date)))
         THEN 500
    ELSE 201

create_invoice(u, mode, invoice_date, items_data) ==
    LET st == create_invoice_status(u, mode, invoice_date, items_data)
    IN /\ nextId.invoice <= MaxInvoices
       /\ response' = Response("create_invoice", st)
       /\ IF st = 201
          THEN /\ invoices' = invoices \cup
                      {Invoice_save(NewInvoice(u, mode, invoice_date))}
               /\ items' = items \cup NewItems(nextId.invoice, items_data)
               /\ nextId' = [nextId EXCEPT !.invoice = @ + 1]
          ELSE UNCHANGED <<invoices, items, nextId>>
       /\ session' = SessionAfter(u, mode)
       /\ UNCHANGED <<users, businesses, memberships, products, movements,
                      today, procs>>

\* get_object looking the row up among all invoices, then IsOwnerOrStaff
invoice_object_status_anybusiness(u, mode, pk) ==
    IF pk \notin {i.id : i \in invoices} THEN 404
    ELSE LET obj == CHOOSE i \in invoices : i.id = pk
         IN IF users[u].is_staff \/ obj.user = u THEN 200 ELSE 403

\* get_object: the row pk of get_queryset, then IsOwnerOrStaff on it
invoice_object_status(u, mode, pk) ==
    IF pk \notin {i.id : i \in InvoiceQueryset(u, mode)} THEN 404
    ELSE LET obj == CHOOSE i \in invoices : i.id = pk
         IN IF users[u].is_staff \/ obj.user = u THEN 200 ELSE 403

\* GET /api/invoices/{pk}/
retrieve_invoice(u, mode, pk) ==
    /\ response' = Response("retrieve_invoice",
                            invoice_object_status(u, mode, pk))
    /\ session' = SessionAfter(u, mode)
    /\ UNCHANGED <<users, businesses, memberships, stockVars, today, procs>>

\* InvoiceSerializer.update without instance.items.all().delete(): the new
\* items are added to the old ones
update_invoice_appending(u, mode, pk, invoice_date, patch) ==
    LET st == invoice_object_status(u, mode, pk)
    IN /\ IF st # 200
          THEN /\ response' = Response("update_invoice", st)
               /\ UNCHANGED <<invoices, items>>
          ELSE IF patch.given /\ ~ItemsValid(patch.data)
          THEN /\ response' = Response("update_invoice", 400)
               /\ UNCHANGED <<invoices, items>>
          ELSE LET instance == CHOOSE i \in invoices : i.id = pk
                   saved == Invoice_save(
                               [instance EXCEPT !.invoice_date = invoice_date,
                                                !.updated_at = today])
               IN /\ response' = Response("update_invoice", 200)
                  /\ invoices' = (invoices \ {instance}) \cup {saved}
                  /\ IF patch.given
                     THEN items' = items \cup NewItems(pk, patch.data)
                     ELSE items' = items
       /\ session' = SessionAfter(u, mode)
       /\ UNCHANGED <<users, businesses, memberships, products, movements,
                      nextId, today, procs>>

\* PUT/PATCH /api/invoices/{pk}/ : InvoiceSerializer.update; patch.items is
\* [given, data], given = FALSE when the request carries no items
update_invoice(u, mode, pk, invoice_date, patch) ==
    LET st == invoice_object_status(u, mode, pk)
    IN /\ IF st # 200
          THEN /\ response' = Response("update_invoice", st)
               /\ UNCHANGED <<invoices, items>>
          ELSE IF patch.given /\ ~ItemsValid(patch.data)
          THEN /\ response' = Response("update_invoice", 400)
               /\ UNCHANGED <<invoices, items>>
          ELSE LET instance == CHOOSE i \in invoices : i.id = pk
                   saved == Invoice_save(
                               [instance EXCEPT !.invoice_date = invoice_date,
                                                !.updated_at = today])
               IN /\ response' = Response("update_invoice", 200)
                  /\ invoices' = (invoices \ {instance}) \cup {saved}
                  /\ IF patch.given
                     THEN items' = {it \in items : it.invoice # pk}
                                      \cup NewItems(pk, patch.data)
                     ELSE items' = items
       /\ session' = SessionAfter(u, mode)
       /\ UNCHANGED <<users, businesses, memberships, products, movements,
                      nextId, today, procs>>

\* DELETE /api/invoices/{pk}/ : the items go with it (on_delete=CASCADE)
destroy_invoice(u, mode, pk) ==
    LET st == invoice_object_status(u, mode, pk)
    IN /\ IF st # 200
          THEN /\ response' = Response("destroy_invoice", st)
               /\ UNCHANGED <<invoices, items>>
          ELSE /\ response' = Response("destroy_invoice", 204)
               /\ invoices' = {i \in invoices : i.id # pk}
               /\ items' = {it \in items : it.invoice # pk}
       /\ session' = SessionAfter(u, mode)
       /\ UNCHANGED <<users, businesses, memberships, products, movements,
                      nextId, today, procs>>

----------------------------------------------------------------------------
(* Concurrent Invoice.save: the count query and the INSERT are two steps *)

FirstDay == [year |-> 2024, month |-> 1, day |-> 1]

\* the local state of a worker that is not inside Invoice.save
NoRow == [id |-> 0, business |-> NoBusiness, user |-> 0,
          invoice_number |-> Blank, invoice_date |-> FirstDay,
          created_at |-> FirstDay, updated_at |-> FirstDay]

\* the target_membership of a worker that is not inside remove_member or
\* update_role
NoMembership == [user |-> 0, business |-> NoBusiness, role |-> "member"]

\* a worker between requests
IdleWorker == [pc |-> "idle", row |-> NoRow,
               target_membership |-> NoMembership]

InFlight == Cardinality({p \in ProcIds : procs[p].pc # "idle"})

\* POST /api/invoices/ reaches Invoice.save: the atomic block runs the count
\* and sets self.invoice_number; the block ends before super().save()
save_count(p, u, mode, invoice_date) ==
    /\ procs[p].pc = "idle"
    /\ nextId.invoice + InFlight <= MaxInvoices
    /\ procs' = [procs EXCEPT ![p] =
                    [pc |-> "counted",
                     row |-> Invoice_save(NewInvoice(u, mode, invoice_date)),
                     target_membership |-> NoMembership]]
    /\ session' = SessionAfter(u, mode)
    /\ UNCHANGED <<users, businesses, memberships, stockVars, today, response>>

\* super().save(): the INSERT, with the primary key the database hands out
save_insert(p) ==
    LET row == [procs[p].row EXCEPT !.id = nextId.invoice,
                                    !.created_at = today,
                                    !.updated_at = today]
    IN /\ procs[p].pc = "counted"
       /\ procs' = [procs EXCEPT ![p] = IdleWorker]
       /\ IF row.business # NoBusiness /\ UniqueTogether(row)
          THEN /\ invoices' = invoices \cup {row}
               /\ nextId' = [nextId EXCEPT !.invoice = @ + 1]
               /\ response' = Response("create_invoice", 201)
          ELSE /\ UNCHANGED <<invoices, nextId>>
               /\ response' = Response("create_invoice", 500)
       /\ UNCHANGED <<users, businesses, memberships, session, products,
                      movements, items, today>>

----------------------------------------------------------------------------
(* Concurrent membership requests: the checks of remove_member and
   update_role and the write that follows them are two steps; no transaction
   and no lock spans them *)

\* remove_member up to and including the admin_count check: the request is
\* answered at once when a check refuses it, else the worker holds the
\* target_membership it has read
remove_member_check(p, u, mode, b, target) ==
    LET st == remove_member_status(u, b, target)
    IN /\ procs[p].pc = "idle"
       /\ IF st = 204
          THEN /\ procs' = [procs EXCEPT ![p] =
                    [pc |-> "remove_checked", row |-> NoRow,
                     target_membership |->
                        CHOOSE m \in memberships :
                            m.user = target /\ m.business = b]]
               /\ UNCHANGED response
          ELSE /\ response' = Response("remove_member", st)
               /\ UNCHANGED procs
       /\ session' = SessionAfter(u, mode)
       /\ UNCHANGED <<users, businesses, memberships, stockVars, today>>

\* target_membership.delete(): DELETE of the row that was read (no row is
\* deleted if it is gone already)
remove_member_delete(p) ==
    LET t == procs[p].target_membership
    IN /\ procs[p].pc = "remove_checked"
       /\ procs' = [procs EXCEPT ![p] = IdleWorker]
       /\ memberships' = {m \in memberships :
                             ~(m.user = t.user /\ m.business = t.business)}
       /\ response' = Response("remove_member", 204)
       /\ UNCHANGED <<users, businesses, session, stockVars, today>>

\* update_role up to and including the admin_count check and the assignment
\* target_membership.role = new_role on the instance that was read
update_role_check(p, u, mode, b, target, new_role) ==
    LET st == update_role_status(u, b, target, new_role)
    IN /\ procs[p].pc = "idle"
       /\ IF st = 200
          THEN /\ procs' = [procs EXCEPT ![p] =
                    [pc |-> "role_checked", row |-> NoRow,
                     target_membership |->
                        [user |-> target, business |-> b,
                         role |-> new_role]]]
               /\ UNCHANGED response
          ELSE /\ response' = Response("update_role", st)
               /\ UNCHANGED procs
       /\ session' = SessionAfter(u, mode)
       /\ UNCHANGED <<users, businesses, memberships, stockVars, today>>

\* target_membership.save(): Model.save of an instance with a primary key
\* runs UPDATE and, when that matches no row (the membership was deleted
\* meanwhile), INSERT: either way the row is there afterwards with the role
\* the instance carries
update_role_save(p) ==
    LET t == procs[p].target_membership
    IN /\ procs[p].pc = "role_checked"
       /\ procs' = [procs EXCEPT ![p] = IdleWorker]
       /\ memberships' =
             {m \in memberships :
                 ~(m.user = t.user /\ m.business = t.business)} \cup {t}
       /\ response' = Response("update_role", 200)
       /\ UNCHANGED <<users, businesses, session, stockVars, today>>

----------------------------------------------------------------------------
(* The clock *)

Tick ==
    /\ today.day < MaxDay
    /\ today' = [today EXCEPT !.day = @ + 1]
    /\ UNCHANGED <<tenancyVars, stockVars, procs, response>>

----------------------------------------------------------------------------
(* Initial states and specifications *)

\* the accounts of the deployment: all active, none asked to change the
\* password (UserProfile.must_change_password defaults to False)
InitialUsers ==
    (1 :> [is_staff |-> TRUE, is_superuser |-> TRUE, is_active |-> TRUE,
           must_change_password |-> FALSE, password |-> "secret12"]
     @@ 2 :> [is_staff |-> TRUE, is_superuser |-> FALSE, is_active |-> TRUE,
              must_change_password |-> FALSE, password |-> "secret12"]
     @@ 3 :> [is_staff |-> FALSE, is_superuser |-> FALSE, is_active |-> TRUE,
              must_change_password |-> FALSE, password |-> "secret12"])

\* A deployment after set-up: a superuser (1), a staff user (2) and a plain
\* user (3); two businesses, each created by the superuser (who is made its
\* admin), with the members added since; one product per business.
Init ==
    /\ users = InitialUsers
    /\ businesses = BusinessIds
    /\ memberships = {[user |-> 1, business |-> 1, role |-> "admin"],
                      [user |-> 1, business |-> 2, role |-> "admin"],
                      [user |-> 2, business |-> 2, role |-> "admin"],
                      [user |-> 3, business |-> 1, role |-> "member"]}
    /\ session = (1 :> 1 @@ 2 :> 2) @@ [u \in AllUserIds |-> NoBusiness]
    /\ products = {[id |-> 1, business |-> 1, unit_price |-> 5],
                   [id |-> 2, business |-> 2, unit_price |-> 7]}
    /\ movements = {}
    /\ invoices = {}
    /\ items = {}
    /\ nextId = [movement |-> 1, invoice |-> 1, product |-> 3, user |-> 4]
    /\ today = FirstDay
    /\ procs = [p \in ProcIds |-> IdleWorker]
    /\ response = Response("none", 0)

\* items of a request: up to MaxItems lines
ItemInputs == [product : ProductIds, quantity : Quantities, unit_price : Prices]
ItemsInputs == UNION {[1..n -> ItemInputs] : n \in 0..MaxItems}
PatchInputs == {[given |-> FALSE, data |-> <<>>]}
                  \cup {[given |-> TRUE, data |-> d] : d \in ItemsInputs}

InvoiceIds == 1..MaxInvoices
\* primary keys of products, and the unit prices a product request carries
AllProductIds == 1..MaxProducts
ProductPrices == {5, 9}
MovementIds == 1..MaxMovements

\* the password field of a create request: absent, or one of the passwords
PasswordInputs == {[given |-> FALSE, value |-> ""]}
                     \cup {[given |-> TRUE, value |-> pw] : pw \in Passwords}

Next ==
    \/ \E u \in ActiveUsers, mode \in AuthModes, b \in BusinessIds :
          select(u, mode, b)
    \/ \E u \in ActiveUsers, mode \in AuthModes, b \in BusinessIds,
          t \in UserIds, r \in RoleInputs : add_member(u, mode, b, t, r)
    \/ \E u \in ActiveUsers, mode \in AuthModes, b \in BusinessIds, t \in UserIds :
          remove_member(u, mode, b, t)
    \/ \E u \in ActiveUsers, mode \in AuthModes, b \in BusinessIds,
          t \in UserIds, r \in RoleInputs : update_role(u, mode, b, t, r)
    \/ \E u \in ActiveUsers, mode \in AuthModes, t \in UserIds,
          st \in BOOLEAN, su \in BOOLEAN : update_user(u, mode, t, st, su)
    \/ \E u \in ActiveUsers, mode \in AuthModes, b \in BusinessIds :
          destroy_business(u, mode, b)
    \/ \E u \in ActiveUsers, mode \in AuthModes : list_products(u, mode)
    \/ \E u \in ActiveUsers, mode \in AuthModes, price \in ProductPrices :
          create_product(u, mode, price)
    \/ \E u \in ActiveUsers, mode \in AuthModes, pk \in AllProductIds,
          price \in ProductPrices : update_product(u, mode, pk, price)
    \/ \E u \in ActiveUsers, mode \in AuthModes, pk \in AllProductIds :
          destroy_product(u, mode, pk)
    \/ \E u \in ActiveUsers, mode \in AuthModes, pk \in AllProductIds :
          stock_history(u, mode, pk)
    \/ \E u \in ActiveUsers, mode \in AuthModes : list_invoices(u, mode)
    \/ \E u \in ActiveUsers, mode \in AuthModes, pid \in ProductIds,
          mt \in MovementTypes, q \in Quantities :
          create_stock_movement(u, mode, pid, mt, q)
    \/ \E u \in ActiveUsers, mode \in AuthModes, pk \in MovementIds :
          StockMovement_update(u, mode, pk)
    \/ \E u \in ActiveUsers, mode \in AuthModes, pk \in MovementIds :
          StockMovement_partial_update(u, mode, pk)
    \/ \E u \in ActiveUsers, mode \in AuthModes, pk \in MovementIds :
          StockMovement_destroy(u, mode, pk)
    \/ \E u \in ActiveUsers, mode \in AuthModes, d \in Dates, it \in ItemsInputs :
          create_invoice(u, mode, d, it)
    \/ \E u \in ActiveUsers, mode \in AuthModes, pk \in InvoiceIds, d \in Dates,
          patch \in PatchInputs : update_invoice(u, mode, pk, d, patch)
    \/ \E u \in ActiveUsers, mode \in AuthModes, pk \in InvoiceIds :
          destroy_invoice(u, mode, pk)
    \/ \E u \in ActiveUsers, mode \in AuthModes, pk \in InvoiceIds :
          retrieve_invoice(u, mode, pk)
    \/ \E u \in ActiveUsers, mode \in AuthModes, t \in AllUserIds :
          retrieve_user(u, mode, t)
    \/ \E u \in ActiveUsers, mode \in AuthModes, t \in AllUserIds,
          a \in BOOLEAN : partial_update_user(u, mode, t, a)
    \/ \E u \in ActiveUsers, mode \in AuthModes, st \in BOOLEAN,
          pw \in PasswordInputs : create_user(u, mode, st, pw)
    \/ \E u \in ActiveUsers, mode \in AuthModes, t \in AllUserIds :
          reset_password(u, mode, t)
    \/ \E u \in ActiveUsers, mode \in AuthModes, t \in AllUserIds :
          toggle_status(u, mode, t)
    \/ \E u \in ActiveUsers, mode \in AuthModes, t \in AllUserIds :
          destroy_user(u, mode, t)
    \/ \E u \in ActiveUsers, mode \in AuthModes, old \in Passwords,
          new \in Passwords : change_password(u, mode, old, new)
    \/ \E u \in AllUserIds : unauthenticated_request(u)
    \/ Tick

Spec == Init /\ [][Next]_vars

----------------------------------------------------------------------------
(* Scenarios: the same handlers, each explored with the requests one part *)
(* of the API receives                                                     *)

\* Tenancy: business selection, membership management, user flags, listings.
\* The invoices are those of two earlier requests: user 3, having selected
\* business 1, and user 1 each created one on the first day.
InitTenancy ==
    /\ users = InitialUsers
    /\ businesses = BusinessIds
    /\ memberships = {[user |-> 1, business |-> 1, role |-> "admin"],
                      [user |-> 1, business |-> 2, role |-> "admin"],
                      [user |-> 2, business |-> 2, role |-> "admin"],
                      [user |-> 3, business |-> 1, role |-> "member"]}
    /\ session = (1 :> 1 @@ 2 :> 2 @@ 3 :> 1)
                    @@ [u \in AllUserIds |-> NoBusiness]
    /\ products = {[id |-> 1, business |-> 1, unit_price |-> 5],
                   [id |-> 2, business |-> 2, unit_price |-> 7]}
    /\ movements = {}
    /\ invoices =
         {[id |-> 1, business |-> 1, user |-> 1,
           invoice_number |-> FormatInvoiceNumber(strftime_Ymd(FirstDay), 1),
           invoice_date |-> FirstDay, created_at |-> FirstDay,
           updated_at |-> FirstDay],
          [id |-> 2, business |-> 1, user |-> 3,
           invoice_number |-> FormatInvoiceNumber(strftime_Ymd(FirstDay), 2),
           invoice_date |-> FirstDay, created_at |-> FirstDay,
           updated_at |-> FirstDay]}
    /\ items = {}
    /\ nextId = [movement |-> 1, invoice |-> 3, product |-> 3, user |-> 4]
    /\ today = FirstDay
    /\ procs = [p \in ProcIds |-> IdleWorker]
    /\ response = Response("create_invoice", 201)

\* Membership management of both businesses by every user
NextMembers ==
    \/ \E u \in UserIds, b \in BusinessIds, t \in UserIds, r \in RoleInputs :
          add_member(u, "jwt", b, t, r)
    \/ \E u \in UserIds, b \in BusinessIds, t \in UserIds :
          remove_member(u, "jwt", b, t)
    \/ \E u \in UserIds, b \in BusinessIds, t \in UserIds, r \in RoleInputs :
          update_role(u, "jwt", b, t, r)

SpecMembers == InitTenancy /\ [][NextMembers]_vars

\* Listings: what users 2 and 3 are shown while the superuser changes their
\* memberships and the flags of user 3
NextListing ==
    \/ \E u \in {2, 3}, mode \in AuthModes, b \in BusinessIds :
          select(u, mode, b)
    \/ \E b \in BusinessIds, t \in {2, 3} : add_member(1, "jwt", b, t, "member")
    \/ \E b \in BusinessIds, t \in {2, 3} : remove_member(1, "jwt", b, t)
    \/ \E su \in BOOLEAN : update_user(1, "jwt", 3, FALSE, su)
    \/ \E u \in {2, 3}, mode \in AuthModes : list_products(u, mode)
    \/ \E u \in {2, 3}, mode \in AuthModes : list_invoices(u, mode)

SpecListing == InitTenancy /\ [][NextListing]_vars

\* item lists of the stock scenario: no line, or one line of one unit
StockItemsInputs ==
    {<<>>} \cup {<<[product |-> pid, quantity |-> 1, unit_price |-> 3]>> :
                    pid \in ProductIds}
StockPatchInputs == {[given |-> FALSE, data |-> <<>>]}
                  \cup {[given |-> TRUE, data |-> d] : d \in StockItemsInputs}

\* The ledger: stock movements of 2 units by every user on every product
NextLedger ==
    \/ \E u \in UserIds, pid \in ProductIds, mt \in MovementTypes :
          create_stock_movement(u, "jwt", pid, mt, 2)
    \/ \E u \in UserIds, mode \in AuthModes, pk \in MovementIds :
          StockMovement_update(u, mode, pk)
    \/ \E u \in UserIds, mode \in AuthModes, pk \in MovementIds :
          StockMovement_partial_update(u, mode, pk)
    \/ \E u \in UserIds, mode \in AuthModes, pk \in MovementIds :
          StockMovement_destroy(u, mode, pk)

SpecLedger == Init /\ [][NextLedger]_vars

\* Stock: movements of 2 units and invoices of one day
NextStock ==
    \/ \E pid \in ProductIds, mt \in MovementTypes :
          create_stock_movement(1, "jwt", pid, mt, 2)
    \/ \E u \in UserIds, it \in StockItemsInputs :
          create_invoice(u, "jwt", FirstDay, it)
    \/ \E pk \in InvoiceIds, patch \in StockPatchInputs :
          update_invoice(1, "jwt", pk, FirstDay, patch)
    \/ \E pk \in InvoiceIds : destroy_invoice(1, "jwt", pk)

SpecStock == Init /\ [][NextStock]_vars

\* patches of the editing scenario: no items key, or one line of one unit
EditPatchInputs ==
    {[given |-> FALSE, data |-> <<>>],
     [given |-> TRUE,
      data |-> <<[product |-> 1, quantity |-> 1, unit_price |-> 3]>>]}

\* Selling: movements of 2 units and invoices of one unit, by the superuser in
\* business 1 and by user 3, who has selected no business
NextSelling ==
    \/ \E u \in {1, 3}, pid \in ProductIds, mt \in MovementTypes :
          create_stock_movement(u, "jwt", pid, mt, 2)
    \/ \E u \in {1, 3}, it \in StockItemsInputs :
          create_invoice(u, "jwt", FirstDay, it)

SpecSelling == Init /\ [][NextSelling]_vars

\* The staff gate: the superuser and user 3 (a member of business 1, staff or
\* not as the superuser sets it) write products, stock movements and users
NextStaffGate ==
    \/ select(3, "jwt", 1)
    \/ \E u \in {1, 3} : create_product(u, "jwt", 5)
    \/ \E u \in {1, 3}, pk \in AllProductIds :
          update_product(u, "jwt", pk, 9)
    \/ \E u \in {1, 3}, pk \in AllProductIds : destroy_product(u, "jwt", pk)
    \/ \E u \in {1, 3} : create_stock_movement(u, "jwt", 1, "IN", 2)
    \/ \E u \in {1, 3}, st \in BOOLEAN : update_user(u, "jwt", 3, st, FALSE)

SpecStaffGate == Init /\ [][NextStaffGate]_vars

\* The request context of user 3 while the superuser adds and removes the
\* membership, changes the superuser flag and deletes businesses
NextContext ==
    \/ \E mode \in AuthModes, b \in BusinessIds : select(3, mode, b)
    \/ \E b \in BusinessIds : add_member(1, "jwt", b, 3, "member")
    \/ \E b \in BusinessIds : remove_member(1, "jwt", b, 3)
    \/ \E su \in BOOLEAN : update_user(1, "jwt", 3, FALSE, su)
    \/ \E b \in BusinessIds : destroy_business(1, "jwt", b)
    \/ \E mode \in AuthModes : create_invoice(3, mode, FirstDay, <<>>)
    \/ \E mode \in AuthModes : list_products(3, mode)

SpecContext == Init /\ [][NextContext]_vars

\* item lists of the pricing scenario: none, one line without a price, one
\* line with a price, two lines on two products, two equal lines
PricingItemsInputs ==
    {<<>>,
     <<[product |-> 1, quantity |-> 1, unit_price |-> 0]>>,
     <<[product |-> 1, quantity |-> 2, unit_price |-> 3]>>,
     <<[product |-> 1, quantity |-> 1, unit_price |-> 0],
       [product |-> 2, quantity |-> 2, unit_price |-> 3]>>,
     <<[product |-> 1, quantity |-> 1, unit_price |-> 3],
       [product |-> 1, quantity |-> 1, unit_price |-> 3]>>}

\* Pricing: the superuser, in business 1, creates, edits and deletes invoices
\* and changes the price of product 1
NextPricing ==
    \/ \E it \in PricingItemsInputs : create_invoice(1, "jwt", FirstDay, it)
    \/ \E pk \in ProductIds, price \in ProductPrices :
          update_product(1, "jwt", pk, price)
    \/ \E pk \in InvoiceIds, it \in PricingItemsInputs :
          update_invoice(1, "jwt", pk, FirstDay, [given |-> TRUE, data |-> it])
    \/ \E pk \in InvoiceIds : destroy_invoice(1, "jwt", pk)

SpecPricing == Init /\ [][NextPricing]_vars

\* Editing: invoices created on the first day by user 1, then updated
\* on that day or on a later one
NextEditing ==
    \/ today = FirstDay /\ create_invoice(1, "jwt", FirstDay, <<>>)
    \/ \E u \in {1, 3}, pk \in InvoiceIds, d \in Dates,
          patch \in EditPatchInputs : update_invoice(u, "jwt", pk, d, patch)
    \/ Tick

SpecEditing == Init /\ [][NextEditing]_vars

\* Numbering: invoices created one request at a time, none deleted
NextNumbering ==
    \/ \E u \in UserIds, mode \in AuthModes, b \in BusinessIds :
          select(u, mode, b)
    \/ \E u \in UserIds, mode \in AuthModes, d \in Dates :
          create_invoice(u, mode, d, <<>>)
    \/ Tick

SpecNumbering == Init /\ [][NextNumbering]_vars

\* The race alone: invoice creations in flight, nothing deleted
NextRace ==
    \/ \E p \in ProcIds, u \in UserIds : save_count(p, u, "jwt", FirstDay)
    \/ \E p \in ProcIds : save_insert(p)
    \/ Tick

SpecRace == Init /\ [][NextRace]_vars

\* Replacing items: the superuser, in business 1, records incoming stock and
\* creates, edits and deletes invoices of one day
NextReplacing ==
    \/ \E pid \in ProductIds : create_stock_movement(1, "jwt", pid, "IN", 2)
    \/ \E it \in StockItemsInputs : create_invoice(1, "jwt", FirstDay, it)
    \/ \E pk \in InvoiceIds, patch \in StockPatchInputs :
          update_invoice(1, "jwt", pk, FirstDay, patch)
    \/ \E pk \in InvoiceIds : destroy_invoice(1, "jwt", pk)

SpecReplacing == Init /\ [][NextReplacing]_vars

\* Stock history of product 1: the superuser, in business 1, records
\* movements dated today and invoices dated another day than today
HistoryItemsInputs ==
    {<<[product |-> 1, quantity |-> 1, unit_price |-> 3]>>}

NextHistory ==
    \/ \E mt \in MovementTypes, q \in Quantities :
          create_stock_movement(1, "jwt", 1, mt, q)
    \/ \E d \in Dates \ {today}, it \in HistoryItemsInputs :
          create_invoice(1, "jwt", d, it)
    \/ stock_history(1, "jwt", 1)
    \/ Tick

SpecHistory == Init /\ [][NextHistory]_vars

\* User management: every active user retrieves, edits, disables and deletes
\* accounts
NextAccounts ==
    \/ \E u \in ActiveUsers, t \in UserIds : retrieve_user(u, "jwt", t)
    \/ \E u \in ActiveUsers, t \in UserIds, su \in BOOLEAN :
          update_user(u, "jwt", t, TRUE, su)
    \/ \E u \in ActiveUsers, t \in UserIds, a \in BOOLEAN :
          partial_update_user(u, "jwt", t, a)
    \/ \E u \in ActiveUsers, t \in UserIds : reset_password(u, "jwt", t)
    \/ \E u \in ActiveUsers, t \in UserIds : toggle_status(u, "jwt", t)
    \/ \E u \in ActiveUsers, t \in UserIds : destroy_user(u, "jwt", t)
    \/ \E u \in UserIds : unauthenticated_request(u)

SpecAccounts == Init /\ [][NextAccounts]_vars

\* Access to invoices: every user creates invoices in the business they have
\* selected (user 3 selects one first) and reads, edits and deletes invoices
InvoiceAccessPatch ==
    [given |-> TRUE,
     data |-> <<[product |-> 1, quantity |-> 1, unit_price |-> 3]>>]

NextInvoiceAccess ==
    \/ \E b \in BusinessIds : select(3, "jwt", b)
    \/ \E u \in UserIds : create_invoice(u, "jwt", FirstDay, <<>>)
    \/ \E u \in UserIds, pk \in InvoiceIds : retrieve_invoice(u, "jwt", pk)
    \/ \E u \in UserIds, pk \in InvoiceIds :
          update_invoice(u, "jwt", pk, FirstDay, InvoiceAccessPatch)
    \/ \E u \in UserIds, pk \in InvoiceIds : destroy_invoice(u, "jwt", pk)

SpecInvoiceAccess == Init /\ [][NextInvoiceAccess]_vars

\* Passwords: the superuser creates users and resets passwords; every user
\* but the superuser changes their own
NextPasswords ==
    \/ \E pw \in PasswordInputs : create_user(1, "jwt", FALSE, pw)
    \/ \E t \in AllUserIds : reset_password(1, "jwt", t)
    \/ \E u \in ActiveUsers \ {1}, old \in Passwords, new \in Passwords :
          change_password(u, "jwt", old, new)

SpecPasswords == Init /\ [][NextPasswords]_vars

\* Membership requests in flight: admins 1 and 2 of business 2 remove
\* members of it and change their roles
MemberRaceActors == {1, 2}
RaceBusiness == 2

NextMemberRace ==
    \/ \E p \in ProcIds, u \in MemberRaceActors, t \in UserIds :
          remove_member_check(p, u, "jwt", RaceBusiness, t)
    \/ \E p \in ProcIds : remove_member_delete(p)
    \/ \E p \in ProcIds, u \in MemberRaceActors, t \in UserIds, r \in Roles :
          update_role_check(p, u, "jwt", RaceBusiness, t, r)
    \/ \E p \in ProcIds : update_role_save(p)

SpecMemberRace == Init /\ [][NextMemberRace]_vars

\* Concurrency: several Invoice.save calls in flight
NextConc ==
    \/ \E p \in ProcIds, u \in UserIds : save_count(p, u, "jwt", FirstDay)
    \/ \E p \in ProcIds : save_insert(p)
    \/ \E pk \in InvoiceIds : destroy_invoice(1, "jwt", pk)
    \/ Tick

SpecConc == Init /\ [][NextConc]_vars

----------------------------------------------------------------------------
(* Properties *)

\* C1: however the count steps and the INSERT steps of concurrent invoice
\* creations interleave, no two stored invoices of one business carry the
\* same invoice_number.
C1_UniqueNumbers ==
    \A i \in invoices, j \in invoices :
        (i.business = j.business /\ i.invoice_number = j.invoice_number)
            => i.id = j.id

\* C1 witness: a creation has counted and holds a number that another creation
\* of the same business, which counted the same rows, has stored in the meantime
C1_RaceWitness ==
    \E p \in ProcIds :
        /\ procs[p].pc = "counted"
        /\ \E i \in invoices :
              /\ i.business = procs[p].row.business
              /\ i.invoice_number = procs[p].row.invoice_number

RECURSIVE WeightedSum(_, _)
\* the sum of the quantities of rows, taken value by value: each value in qs
\* times the number of rows that carry it
WeightedSum(qs, rows) ==
    IF qs = {} THEN 0
    ELSE LET q == CHOOSE x \in qs : TRUE
         IN q * Cardinality({r \in rows : r.quantity = q})
              + WeightedSum(qs \ {q}, rows)

Total(rows) == WeightedSum({r.quantity : r \in rows}, rows)

InvoiceOf(it) == CHOOSE i \in invoices : i.id = it.invoice

OnlyAdmin(target, b) == IsAdmin(target, b) /\ AdminCount(b) = 1

\* a step in which u asks to remove, or to demote to 'member', the only admin
LastAdminRequest(u, b, target) ==
    /\ OnlyAdmin(target, b)
    /\ \/ remove_member(u, "jwt", b, target)
       \/ update_role(u, "jwt", b, target, "member")

\* C3 as stated: a remove_member request, or an update_role request demoting
\* to 'member', that targets the only admin of the business is answered with
\* status 400 whoever sends it, and no membership changes.
C3_Always400 ==
    [][\A u \in UserIds, b \in BusinessIds, target \in UserIds :
          LastAdminRequest(u, b, target)
              => response'.status = 400 /\ memberships' = memberships]_vars

\* C3 amended: such a request is always rejected and no membership changes;
\* the status is 400 when the sender is a superuser or an admin of the
\* business, 403 when the sender is a member without the admin role, and 404
\* when the sender is neither a superuser nor a member of the business.
C3_LastAdminRejected ==
    [][\A u \in UserIds, b \in BusinessIds, target \in UserIds :
          LastAdminRequest(u, b, target)
              => /\ memberships' = memberships
                 /\ response'.status =
                        IF users[u].is_superuser \/ IsAdmin(u, b) THEN 400
                        ELSE IF IsMember(u, b) THEN 403
                        ELSE 404]_vars

\* C3 witness: business 2 is down to one admin while business 1 has two, and a
\* remove_member request was answered 400: only the last-admin guard of
\* business 2 answers a remove_member request with 400
C3_GuardWitness ==
    /\ response = Response("remove_member", 400)
    /\ AdminCount(1) >= 2
    /\ AdminCount(2) = 1

\* C4: a business that has at least one admin membership has at least one
\* after every add_member, remove_member or update_role request, the requests
\* being executed one at a time.
C4_AdminRemains ==
    [][\A b \in BusinessIds : AdminCount(b) >= 1 => AdminCount(b)' >= 1]_vars

\* C4 witness: a demotion went through in business 2, an admin of business 2
\* having been removed or demoted before, and exactly one admin is left there
C4_DemotedWitness ==
    /\ response = Response("update_role", 200)
    /\ AdminCount(2) = 1
    /\ \E m \in memberships : m.business = 2 /\ m.role = "member"
    /\ Cardinality({m \in memberships : m.business = 2}) = 3

\* what the two list endpoints show u: only u's own invoices, and only
\* products of businesses u is a member of
OwnListings(u) ==
    \A mode \in AuthModes :
        /\ \A i \in list_invoices_result(u, mode) : i.user = u
        /\ \A p \in list_products_result(u, mode) : IsMember(u, p.business)

\* C5 as stated: in every reachable state and for every request of a
\* non-staff user, the invoice list contains only invoices created by that
\* user and the product list only products of a business of which the user is
\* currently a member.
C5_NonStaffListings ==
    \A u \in UserIds : ~users[u].is_staff => OwnListings(u)

\* C5 amended: the invoice list returned to a non-staff user contains only
\* invoices created by that user; the product list returned to a user who is
\* neither staff nor superuser contains only products of a business of which
\* the user is currently a member.
C5_PlainUserListings ==
    \A u \in UserIds :
        /\ ~users[u].is_staff
              => \A mode \in AuthModes :
                    \A i \in list_invoices_result(u, mode) : i.user = u
        /\ (~users[u].is_staff /\ ~users[u].is_superuser) => OwnListings(u)

\* C5 witness: user 3, neither staff nor superuser, was removed from the
\* business still selected in the session and was refused the product list
\* (user 2 is not refused in this state), while other users' invoices and
\* the products of that business are stored
C5_StaleSelectionWitness ==
    /\ response = Response("list_products", 403)
    /\ ~users[3].is_staff /\ ~users[3].is_superuser
    /\ session[3] # NoBusiness /\ ~IsMember(3, session[3])
    /\ \E p \in products : p.business = session[3]
    /\ \E i \in invoices : i.business = session[3] /\ i.user # 3
    /\ \A mode \in AuthModes : HasBusinessAccess(2, mode)

\* n written with exactly w decimal digits
Numeral(n, w) ==
    [k \in 1..w |-> DigitChar[((n \div (10 ^ (w - k))) % 10) + 1]]

\* how many invoices of i's business were created on i's creation day, up to i
RankOfDay(i) ==
    Cardinality({j \in invoices : /\ j.business = i.business
                                  /\ j.created_at = i.created_at
                                  /\ j.id <= i.id})

\* C6: invoices being created one at a time and none deleted, the k-th invoice
\* a business creates on a day is numbered INV-<that day as YYYYMMDD>-<k on 4
\* digits>: the day is the creation day, not invoice_date, and the counter is
\* per business and starts again at 0001 each day.
C6_DaySequenceNumber ==
    \A i \in invoices :
        i.invoice_number =
            <<"I", "N", "V", "-">>
                \o Numeral(i.created_at.year, 4)
                \o Numeral(i.created_at.month, 2)
                \o Numeral(i.created_at.day, 2)
                \o <<"-">> \o Numeral(RankOfDay(i), 4)

\* C6 witness: a business created an invoice on one day and its first invoice
\* of a later day, dated (invoice_date) another day than it was created on
C6_NextDayWitness ==
    \E i \in invoices, j \in invoices :
        /\ i.business = j.business
        /\ i.created_at.day < j.created_at.day
        /\ RankOfDay(j) = 1
        /\ j.invoice_date # j.created_at

\* C7: once an invoice is stored with an invoice_number, no later save of it
\* and no API update of its fields or items changes the invoice_number.
C7_NumberKept ==
    [][\A i \in invoices : \A j \in invoices' :
          j.id = i.id => j.invoice_number = i.invoice_number]_vars

\* C7 witness: an invoice was updated on a later day than it was created, to
\* another invoice_date, and its items were replaced
C7_EditedWitness ==
    /\ response = Response("update_invoice", 200)
    /\ \E i \in invoices :
          /\ i.updated_at # i.created_at
          /\ i.invoice_date # i.created_at
          /\ \E it \in items : it.invoice = i.id

\* a step that answers an update, partial update or delete request of u on
\* stock movement pk
ReadonlyRequest(u, mode, pk) ==
    \/ StockMovement_update(u, mode, pk)
    \/ StockMovement_partial_update(u, mode, pk)
    \/ StockMovement_destroy(u, mode, pk)

\* C8 as stated: every update, partial update or delete request on the
\* stock-movement endpoint, by any user, is answered with status 405 and
\* leaves the stored stock movements unchanged.
C8_Always405 ==
    [][\A u \in UserIds, mode \in AuthModes, pk \in MovementIds :
          ReadonlyRequest(u, mode, pk)
              => response'.status = 405 /\ movements' = movements]_vars

\* C8 amended: every such request leaves the stored stock movements unchanged;
\* it is answered with status 405 when the user is a superuser or a member of
\* the business selected for the request, and with status 403 otherwise.
C8_MovementsImmutable ==
    [][\A u \in UserIds, mode \in AuthModes, pk \in MovementIds :
          ReadonlyRequest(u, mode, pk)
              => /\ movements' = movements
                 /\ response'.status =
                        IF \/ users[u].is_superuser
                           \/ /\ session[u] # NoBusiness
                              /\ IsMember(u, session[u])
                        THEN 405 ELSE 403]_vars

\* C8 witness: a delete request on the endpoint was answered 405 while stock
\* movements are stored
C8_DeleteRefusedWitness ==
    /\ response = Response("StockMovement_destroy", 405)
    /\ movements # {}

\* a step that stores a new stock movement or a new invoice of business b
RecordedIn(b) ==
    \/ \E m \in movements' \ movements : m.business = b
    \/ \E i \in invoices' : /\ i.id \notin {j.id : j \in invoices}
                            /\ i.business = b

\* C9: a stock movement or an invoice recorded in the context of business A
\* never changes quantity_in_stock of a product that belongs to a different
\* business B.
C9_StockScopedToBusiness ==
    [][\A p \in products, b \in BusinessIds :
          (b # p.business /\ RecordedIn(b))
              => quantity_in_stock(p)' = quantity_in_stock(p)]_vars

\* C10: no invoice creation and no OUT stock movement is rejected because the
\* stock is insufficient: a creation that is not accepted has a reason that
\* does not depend on quantity_in_stock (an unknown product, no business
\* context, the invoice number already taken; for a movement also a user who
\* is not staff or has no business access).
C10_NeverRejectedForStock ==
    [][response'.status # 201 =>
        /\ \A u \in UserIds, mode \in AuthModes, d \in Dates,
              it \in StockItemsInputs :
              create_invoice(u, mode, d, it)
                  => \/ \E k \in 1..Len(it) :
                           it[k].product \notin {p.id : p \in products}
                     \/ AuthenticateBusiness(u, mode) = NoBusiness
                     \/ \E i \in invoices :
                           /\ i.business = AuthenticateBusiness(u, mode)
                           /\ i.invoice_number =
                                 InvoiceNumberOn(i.business, today)
        /\ \A u \in UserIds, mode \in AuthModes, pid \in ProductIds,
              q \in Quantities :
              create_stock_movement(u, mode, pid, "OUT", q)
                  => \/ ~users[u].is_staff
                     \/ ~HasBusinessAccess(u, mode)
                     \/ AuthenticateBusiness(u, mode) = NoBusiness]_vars

\* C10 witness: a product that was taken out of stock and sold with nothing
\* in stock, the invoice having been accepted: its quantity_in_stock is negative
C10_NegativeStockWitness ==
    /\ response = Response("create_invoice", 201)
    /\ \E p \in products :
          /\ quantity_in_stock(p) < 0
          /\ \E m \in movements : m.product = p.id /\ m.movement_type = "OUT"
          /\ \E it \in items : /\ it.product = p.id
                               /\ InvoiceOf(it).business = p.business

\* the row stored for line k of a request on invoice id
StoredLine(rows, id, k) == CHOOSE it \in rows : it.invoice = id /\ it.line = k

\* C11: an invoice item created without a unit price is stored with the unit
\* price the product has at that moment and its line_total is quantity times
\* that price; a later change of the product's unit price changes neither the
\* stored unit price nor the line_total of the items that exist.
C11_PriceFixedAtCreation ==
    [][/\ \A data \in PricingItemsInputs :
            (create_invoice(1, "jwt", FirstDay, data)
                /\ response'.status = 201)
                => \A k \in 1..Len(data) :
                      data[k].unit_price = 0
                          => LET price == (CHOOSE p \in products :
                                             p.id = data[k].product).unit_price
                                 row == StoredLine(items', nextId.invoice, k)
                             IN /\ row.unit_price = price
                                /\ line_total(row) = data[k].quantity * price
       /\ (products' # products)
              => \A it \in items :
                    /\ it \in items'
                    /\ (line_total(it))' = line_total(it)]_vars

\* C11 witness: an item stored at the product's price of the time (5; no
\* request carries that price) stays at it after the product's price changed
C11_OldPriceWitness ==
    /\ response = Response("update_product", 200)
    /\ \E it \in items :
          /\ it.unit_price = 5
          /\ Product(it.product).unit_price = 9
          /\ line_total(it) = it.quantity * 5

RECURSIVE ValueCountSum(_, _)
\* the sum of the line totals of rows, taken value by value
ValueCountSum(vals, rows) ==
    IF vals = {} THEN 0
    ELSE LET v == CHOOSE x \in vals : TRUE
         IN v * Cardinality({it \in rows : it.quantity * it.unit_price = v})
              + ValueCountSum(vals \ {v}, rows)

\* C12: in every reachable state an invoice's subtotal is the sum of quantity
\* times unit_price over the line items it currently has (0 with none), its
\* tax amount is 0 and its total equals its subtotal.
C12_TotalsFollowItems ==
    \A i \in invoices :
        LET rows == {it \in items : it.invoice = i.id}
        IN /\ subtotal(i) =
                ValueCountSum({it.quantity * it.unit_price : it \in rows}, rows)
           /\ tax_amount(i) = 0
           /\ total(i) = subtotal(i)

\* C12 witness: after an update that replaced its items, an invoice has two
\* equal lines (subtotal 6), another invoice has none (subtotal 0), and the
\* price of a product sold on the first differs from the price stored
C12_ReplacedItemsWitness ==
    /\ response = Response("update_invoice", 200)
    /\ \E i \in invoices, j \in invoices :
          /\ Cardinality({it \in items : it.invoice = i.id}) = 2
          /\ subtotal(i) = 6
          /\ \E it \in items : /\ it.invoice = i.id
                               /\ Product(it.product).unit_price # it.unit_price
          /\ {it \in items : it.invoice = j.id} = {}
          /\ total(j) = 0

\* C13: a superuser can list and retrieve the products, stock movements and
\* invoices of any business, member of it or not: the superuser's request to
\* select any existing business is accepted, and the product list that follows
\* is that business's.
C13_SuperuserReachesAnyBusiness ==
    [][\A u \in UserIds, mode \in AuthModes, b \in BusinessIds :
          (users[u].is_superuser /\ b \in businesses /\ select(u, mode, b))
              => /\ response'.status = 200
                 /\ (list_products_result(u, mode))'
                        = {p \in products : p.business = b}]_vars

\* a step answering a request of u that writes a product, a stock movement or
\* a user account
StaffOnlyRequest(u) ==
    \/ \E price \in ProductPrices : create_product(u, "jwt", price)
    \/ \E pk \in AllProductIds, price \in ProductPrices :
          update_product(u, "jwt", pk, price)
    \/ \E pk \in AllProductIds : destroy_product(u, "jwt", pk)
    \/ \E pid \in ProductIds, mt \in MovementTypes, q \in Quantities :
          create_stock_movement(u, "jwt", pid, mt, q)
    \/ \E t \in UserIds, st \in BOOLEAN, su \in BOOLEAN :
          update_user(u, "jwt", t, st, su)

\* C14: a request by a user who is not staff to create, update or delete a
\* product, to create a stock movement or to manage users is always rejected
\* (403), and products, stock movements and user accounts stay as they are.
C14_StaffGate ==
    [][\A u \in UserIds :
          (~users[u].is_staff /\ StaffOnlyRequest(u))
              => /\ response'.status = 403
                 /\ products' = products
                 /\ movements' = movements
                 /\ users' = users]_vars

\* C14 witness: user 3, not staff, with business 1 selected and a member of
\* it, was refused the deletion of a product while stock movements are stored
C14_RefusedWitness ==
    /\ response = Response("destroy_product", 403)
    /\ ~users[3].is_staff
    /\ HasBusinessAccess(3, "jwt")
    /\ movements # {}

\* C15: on every request the business context is empty or the business
\* selected in the requester's session, and non-empty only if that business
\* exists and the requester is a member of it or a superuser; so every invoice
\* a request stores belongs to such a business, and after a non-superuser was
\* removed from B, or B was deleted, no request of that user runs in B.
C15_ContextFollowsMembership ==
    [][/\ \A u \in UserIds, mode \in AuthModes :
            LET b == AuthenticateBusiness(u, mode)
            IN \/ b = NoBusiness
               \/ /\ b = session[u]
                  /\ b \in businesses
                  /\ \/ users[u].is_superuser
                     \/ \E m \in memberships : m.user = u /\ m.business = b
       /\ \A i \in invoices' :
            i.id \notin {j.id : j \in invoices}
                => /\ i.business = session[i.user]
                   /\ i.business \in businesses
                   /\ \/ users[i.user].is_superuser
                      \/ \E m \in memberships :
                            m.user = i.user /\ m.business = i.business]_vars

\* C15 witness: user 3, not a superuser, whose session still names a business
\* that was deleted or that the user was removed from, sent a request to
\* create an invoice; it ran without a business and stored nothing
C15_StaleSessionWitness ==
    /\ response = Response("create_invoice", 500)
    /\ ~users[3].is_superuser
    /\ session[3] # NoBusiness
    /\ session[3] \notin businesses \/ ~IsMember(3, session[3])
    /\ \A i \in invoices : i.user # 3

\* a step answering a membership request of u on business b
MembershipRequest(u, b) ==
    \/ \E t \in UserIds, r \in RoleInputs : add_member(u, "jwt", b, t, r)
    \/ \E t \in UserIds : remove_member(u, "jwt", b, t)
    \/ \E t \in UserIds, r \in RoleInputs : update_role(u, "jwt", b, t, r)

\* C16: an add_member, remove_member or update_role request on business B by
\* a user who is neither a superuser nor an admin member of B is always
\* rejected and leaves the memberships unchanged: a step that is not a
\* rejection (403, 404) without a change of memberships answers no such request.
C16_OnlyAdminsManage ==
    [][(response'.status \notin {403, 404} \/ memberships' # memberships)
          => \A u \in UserIds, b \in BusinessIds :
                (~users[u].is_superuser /\ ~IsAdmin(u, b))
                    => ~MembershipRequest(u, b)]_vars

\* C16 witness: a user who is a member without the admin role was refused a
\* change of role (403 is the answer to a member of the business who is not
\* an admin of it), after the memberships had been changed by admins
C16_MemberRefusedWitness ==
    /\ response = Response("update_role", 403)
    /\ \E m \in memberships : m.user = 3 /\ m.role = "member"
    /\ IsAdmin(2, 1)

\* C17: the lock of invoice numbering is held across the count and the
\* insert: while a creation has read the count of today's invoices of a
\* business and has not yet inserted its row, no other creation of that
\* business reads the same count, so the number it computed is held by no
\* other creation in flight and by no stored invoice.
C17_CountHeldUntilInsert ==
    \A p \in ProcIds :
        (procs[p].pc = "counted" /\ procs[p].row.business # NoBusiness)
            => /\ \A q \in ProcIds \ {p} :
                    ~ /\ procs[q].pc = "counted"
                      /\ procs[q].row.business = procs[p].row.business
                      /\ procs[q].row.invoice_number
                            = procs[p].row.invoice_number
               /\ \A i \in invoices :
                    ~ /\ i.business = procs[p].row.business
                      /\ i.invoice_number = procs[p].row.invoice_number

\* C18: when N invoice creations of the same business run concurrently on the
\* same day, every one of them completes with a stored invoice: no INSERT of a
\* creation that has a business fails, each adds one invoice.
C18_EveryCreationStores ==
    [][\A p \in ProcIds :
          (procs[p].row.business # NoBusiness /\ save_insert(p))
              => /\ response'.status = 201
                 /\ Cardinality(invoices') = Cardinality(invoices) + 1]_vars

\* C19: with remove_member and update_role requests on the same business
\* running concurrently, in any interleaving of their admin-count checks and
\* their writes, no business is left without an admin (every business has one
\* at the start).
C19_AdminSurvivesInterleaving ==
    \A b \in businesses : AdminCount(b) >= 1

\* C20: the stock-movement ledger is append-only under every request, not
\* only under the stock-movement endpoint: a stored stock movement stays
\* stored with the same product, type and quantity after every request,
\* deletion of its product included.
C20_LedgerAppendOnly ==
    [][\A m \in movements :
          \E n \in movements' : /\ n.id = m.id
                                /\ n.product = m.product
                                /\ n.movement_type = m.movement_type
                                /\ n.quantity = m.quantity]_vars

\* C21: invoices being created and deleted one request at a time, the number
\* Invoice.save computes for a new invoice of a business is never the
\* invoice_number of an invoice that business currently stores.
C21_ComputedNumberIsFree ==
    \A u \in UserIds :
        LET row == Invoice_save(NewInvoice(u, "jwt", today))
        IN row.business # NoBusiness
              => \A i \in invoices :
                    ~ /\ i.business = row.business
                      /\ i.invoice_number = row.invoice_number

\* C22: deleting a user account through the user-management API never leaves
\* a business that had an admin with zero admin memberships.
C22_DeletionKeepsAdmins ==
    [][\A u \in ActiveUsers, t \in UserIds :
          destroy_user(u, "jwt", t)
              => \A b \in businesses :
                    AdminCount(b) >= 1 => AdminCount(b)' >= 1]_vars

\* C23: in every reachable state the product of an invoice item belongs to
\* the business of the item's invoice, and the product of a stock movement
\* belongs to the business of the movement.
C23_ProductOfSameBusiness ==
    /\ \A it \in items : Product(it.product).business = InvoiceOf(it).business
    /\ \A m \in movements : Product(m.product).business = m.business

\* C24: in the list stock_history returns for a product, taken in the
\* returned order, the running_total of each entry is the sum of the IN
\* quantities minus the OUT and SALE quantities of the entries up to and
\* including it, so the running_total of the last entry is the product's
\* quantity_in_stock.
C24_RunningTotalIsPrefixSum ==
    \A p \in ProductQueryset(1, "jwt") :
        LET h == stock_history_data(p, AuthenticateBusiness(1, "jwt"))
        IN /\ \A k \in 1..Len(h) :
                 h[k].running_total = SignedSum(SubSeq(h, 1, k))
           /\ h # <<>> => h[Len(h)].running_total = quantity_in_stock(p)

RECURSIVE SuppliedQuantity(_, _)
\* the quantity an items list asks of product pid
SuppliedQuantity(data, pid) ==
    IF data = <<>> THEN 0
    ELSE (IF Head(data).product = pid THEN Head(data).quantity ELSE 0)
            + SuppliedQuantity(Tail(data), pid)

\* the quantity the stored items of invoice pk take from the stock of p: they
\* count when the invoice is of p's business
SoldBy(pk, p) ==
    IF \E i \in invoices : i.id = pk /\ i.business = p.business
    THEN AggregateOrZero({it \in items : it.invoice = pk /\ it.product = p.id})
    ELSE 0

UserManagementRequest(u) ==
    \E t \in UserIds :
        \/ retrieve_user(u, "jwt", t)
        \/ \E su \in BOOLEAN : update_user(u, "jwt", t, TRUE, su)
        \/ \E a \in BOOLEAN : partial_update_user(u, "jwt", t, a)
        \/ reset_password(u, "jwt", t)
        \/ toggle_status(u, "jwt", t)
        \/ destroy_user(u, "jwt", t)

\* C26: no request of the user-management API lets a user delete or disable
\* their own account: after any request sent by user U, U's account still
\* exists and U's is_active flag is what it was before the request.
C26_NoSelfDisable ==
    [][\A u \in ActiveUsers :
          UserManagementRequest(u)
              => /\ u \in DOMAIN users'
                 /\ users'[u].is_active = users[u].is_active]_vars

\* a step that answers a request of u on the account t
AccountRequest(u, t) ==
    \/ retrieve_user(u, "jwt", t)
    \/ \E su \in BOOLEAN : update_user(u, "jwt", t, TRUE, su)
    \/ \E a \in BOOLEAN : partial_update_user(u, "jwt", t, a)
    \/ reset_password(u, "jwt", t)
    \/ toggle_status(u, "jwt", t)
    \/ destroy_user(u, "jwt", t)

\* C27: a staff user who is not a superuser can never retrieve, update,
\* delete, disable or reset the password of a superuser account (the request
\* is refused and the accounts stay as they are), and no request sent by a
\* user who is not a superuser turns an account's is_superuser flag from
\* false to true.
C27_SuperusersOutOfReach ==
    [][\A u \in ActiveUsers :
          ~users[u].is_superuser
              => /\ \A t \in DOMAIN users :
                       (users[t].is_superuser /\ AccountRequest(u, t))
                           => /\ response'.status \in {403, 404}
                              /\ users' = users
                 /\ UserManagementRequest(u)
                       => \A t \in DOMAIN users \cap DOMAIN users' :
                             users'[t].is_superuser => users[t].is_superuser]_vars

\* C28: must_change_password is set by API user creation and by
\* reset_password; once set it stays set until that user completes a
\* successful change_password, which clears it; a change_password request with
\* a wrong old password or a new password shorter than 8 characters is
\* answered 400 and leaves the password and the flag unchanged.
C28_FlagUntilPasswordChanged ==
    [][/\ \A t \in DOMAIN users' \ DOMAIN users :
             users'[t].must_change_password
       /\ \A t \in DOMAIN users :
             (response' = Response("reset_password", 200)
                 /\ reset_password(1, "jwt", t))
                 => users'[t].must_change_password
       /\ \A t \in DOMAIN users \cap DOMAIN users' :
             (users[t].must_change_password
                 /\ ~users'[t].must_change_password)
                 => /\ response' = Response("change_password", 200)
                    /\ \E old \in Passwords, new \in Passwords :
                          /\ change_password(t, "jwt", old, new)
                          /\ old = users[t].password
                          /\ users'[t].password = new
       /\ \A u \in ActiveUsers, old \in Passwords, new \in Passwords :
             (response'.op = "change_password"
                 /\ change_password(u, "jwt", old, new))
                 => IF old # users[u].password \/ new = "short"
                    THEN response'.status = 400 /\ users' = users
                    ELSE /\ response'.status = 200
                         /\ ~users'[u].must_change_password]_vars

\* C28 witness: user 4 was created through the API (its flag was set then)
\* and has completed a change_password: the flag is cleared and the password
\* is no longer the default one
C28_ChangedWitness ==
    /\ response = Response("change_password", 200)
    /\ 4 \in DOMAIN users
    /\ ~users[4].must_change_password
    /\ users[4].password = "secret12"
    /\ users[3].must_change_password

\* a step that answers a retrieve, update or delete request of u on invoice pk
InvoiceObjectRequest(u, pk) ==
    \/ retrieve_invoice(u, "jwt", pk)
    \/ update_invoice(u, "jwt", pk, FirstDay, InvoiceAccessPatch)
    \/ destroy_invoice(u, "jwt", pk)

\* C29: a non-staff user's request to retrieve, update or delete an invoice
\* created by another user is rejected, and so is any user's request, staff or
\* not, on an invoice of a business other than the one of the request's
\* business context; a rejected request leaves invoices and items unchanged.
C29_InvoicesOfOthersOutOfReach ==
    [][\A i \in invoices, u \in UserIds :
          (/\ \/ ~users[u].is_staff /\ i.user # u
              \/ i.business # AuthenticateBusiness(u, "jwt")
           /\ InvoiceObjectRequest(u, i.id))
              => /\ response'.status \in {403, 404}
                 /\ invoices' = invoices
                 /\ items' = items]_vars

\* C29 witness: a delete request was refused with 404 while both invoices that
\* can exist are stored, one of business 2 and one of business 1 created by
\* user 3, who is not staff
C29_RefusedWitness ==
    /\ response = Response("destroy_invoice", 404)
    /\ Cardinality(invoices) = MaxInvoices
    /\ \E i \in invoices : i.business = 2
    /\ \E i \in invoices : i.business = 1 /\ i.user = 3
    /\ ~users[3].is_staff

\* C30: an invoice item created with a supplied unit price is stored with
\* exactly that price, for every supplied value, zero included.
C30_SuppliedPriceStored ==
    [][\A data \in PricingItemsInputs :
          (response' = Response("create_invoice", 201)
              /\ create_invoice(1, "jwt", FirstDay, data))
              => \A k \in 1..Len(data) :
                    StoredLine(items', nextId.invoice, k).unit_price
                        = data[k].unit_price]_vars

====
